---- MODULE Spec2Model ----
(***************************************************************************)
(* Model of the financial-statement cache of kashiomaru/kabu               *)
(* (scripts/stock_database.py, class StockFinancialDatabase): the          *)
(* freshness protocol run by the constructor, the batch loops, the status  *)
(* file and the per-symbol record files.                                   *)
(*                                                                         *)
(* Dates are integers (a '%Y%m%d' string orders and compares like the day  *)
(* number it names).  The wall-clock date advances only while no process   *)
(* is running, so that one run sees one date D.                            *)
(***************************************************************************)
EXTENDS Integers, Sequences, FiniteSets, TLC

\* ----- bounds of the model ------------------------------------------------
NumSymbols == 4
MaxDay == 2
MaxErrorsArg == 2
MaxDisclosures == 2
MaxCodeLen == 6
MaxRecords == 2

\* ----- program constants --------------------------------------------------
FullForceMaxErrors == 10

Symbols == 1..NumSymbols
Dates == 0..MaxDay
LegacyDates == {0, 1}
NoDate == 0 - 1

VARIABLES
    today,        \* datetime.now() as a day number
    disclosed,    \* remote: the symbols that disclosed statements on each date
    files,        \* database/<code>.json per symbol
    status,       \* database/update_info.txt
    legacy,       \* database/<date>_<count>.txt files, by the date in the name
    pc,           \* position of the running process ("idle": no process)
    mode,         \* kind of cycle in progress
    decision,     \* outcome of _check_and_update_database's case analysis
    statusRead,   \* update_info.txt as found after the migration step
    seenCount,    \* current_data_count of _check_same_day_updates
    startDate,    \* start_date of the date-range update
    dateList,     \* dates still to be queried by _collect_stock_codes_from_dates
    collected,    \* collected_codes / codes
    pending,      \* codes of the affected-symbol loop not yet processed
    queue,        \* stock_codes of the batch loop not yet processed
    stats,        \* stats of batch_get_market_stocks_data / updated_count
    maxErrors,    \* max_errors of the running batch
    forceUpdate,  \* force_update of the running batch
    byDateCalls,  \* by-date queries made to discover the affected codes, per date
    countCalls,   \* by-date queries made by _get_today_financial_data_count
    offered,      \* the codes the remote held for the dates queried for discovery
    errorRun,     \* length of the current run of consecutive per-symbol errors
    fetchCalls,   \* remote get_fins_statements(code=s) calls of this run
    listCalls,    \* remote get_listed_info calls of this run
    failedDates,  \* dates whose by-date query failed during discovery in this run
    outcome,      \* what happened to each symbol in the running loop
    stockCode,    \* the code string under which a caller addresses one symbol
    store,        \* database/<name>.json by name, as text parsed or unparsable
    ret,          \* the last call made on the record store and what it returned
    fileNames,    \* the names of the files the calls so far built a path from
    clientCodes,  \* the code arguments passed to client.get_fins_statements
    series,       \* the DataFrame an analysis function is given, newest row first
    view,         \* the analysis function applied last and what it returned
    answers,      \* whether the remote serves the 1st, 2nd, ... request made to it
    attempt,      \* the requests the running call has made so far
    call          \* the call site of the remote call and how its step ended

procVars == <<pc, mode, decision, statusRead, seenCount, startDate, dateList,
              collected, pending, queue, stats, maxErrors, forceUpdate>>
logVars == <<byDateCalls, countCalls, offered, errorRun, fetchCalls, listCalls,
            failedDates, outcome>>
dbVars == <<today, disclosed, files, status, legacy, procVars, logVars>>
storeVars == <<stockCode, store, ret, fileNames, clientCodes>>
calcVars == <<series, view>>
netVars == <<answers, attempt, call>>
libVars == <<storeVars, calcVars, netVars>>
vars == <<dbVars, libVars>>

\* ----- small helpers ------------------------------------------------------
Max(S) == CHOOSE x \in S : \A y \in S : y <= x

\* The day of the first run: the legacy status files are dated up to it
FirstDay == Max(LegacyDates)

Get(f, k, default) == IF k \in DOMAIN f THEN f[k] ELSE default

NoContent == [k \in {} |-> 0]

NoCall == [op |-> "none"]

NoFile == [exists |-> FALSE, content |-> NoContent]

StatusFile(c) == [exists |-> TRUE, content |-> c]

ZeroStats == [total |-> 0, success |-> 0, skipped |-> 0, error |-> 0]

\* ----- record files -------------------------------------------------------
AbsentFile == [st |-> "absent", recs |-> {}]

FullFile(recs) == [st |-> "full", recs |-> recs]

\* get_financial_statements: the remote's statements of one symbol, one per
\* disclosure date so far (an empty set is the empty DataFrame)
FetchStatements(s) == {d \in Dates : d <= today /\ s \in disclosed[d]}

\* save_stock_data: open(filename, 'w') truncates the file, json.dump writes
\* it piece by piece, leaving the with-block closes it.  The states the
\* file passes through, in order: the previous content, a file that is empty
\* or holds a prefix of the new JSON text ("partial"), the new content.
SaveSteps(old, recs) ==
    << old,
       [st |-> "partial", recs |-> {}],
       FullFile(recs) >>

save_stock_data(old, recs) == SaveSteps(old, recs)[Len(SaveSteps(old, recs))]

\* _file_exists
FileExists(s) == files[s].st # "absent"

\* ----- status file --------------------------------------------------------
\* The text written by _save_batch_status, as key |-> value.  Of the lines of
\* a status file the model keeps the processed date, the mode and the two
\* disclosure counts; the timestamps and the per-run tallies, which no
\* decision reads, are left out.
BatchStatusContent(date, force) ==
    [k \in {"processedDate", "acquireMode"} |->
        CASE k = "processedDate" -> date
          [] OTHER -> IF force THEN "fullForce" ELSE "normal"]

\* The text written by _save_same_day_status
SameDayStatusContent(date, todayCount, prevCount) ==
    [k \in {"processedDate", "updateMode", "todayCount", "prevCount"} |->
        CASE k = "processedDate" -> date
          [] k = "updateMode" -> "sameDay"
          [] k = "todayCount" -> todayCount
          [] OTHER -> prevCount]

\* The text written by _save_date_range_status
DateRangeStatusContent(date, todayCount, prevCount) ==
    [k \in {"processedDate", "updateMode", "todayCount", "prevCount"} |->
        CASE k = "processedDate" -> date
          [] k = "updateMode" -> "dateRange"
          [] k = "todayCount" -> todayCount
          [] OTHER -> prevCount]

\* The text of a legacy '<date>_<count>.txt' file: with or without a
\* processed-date line
LegacyContent(kind, d) ==
    IF kind = "dated" THEN [k \in {"processedDate"} |-> d] ELSE NoContent

\* _parse_status_file_content: the keys it recognises, under the names it
\* stores them by; an unreadable file gives {}
ParsedKeys == {"processedDate", "updateMode", "todayCount", "prevCount"}

_parse_status_file_content(f) ==
    IF ~f.exists THEN NoContent
    ELSE [k \in (DOMAIN f.content) \cap ParsedKeys |-> f.content[k]]

\* _get_previous_data_count
_get_previous_data_count(f) == Get(_parse_status_file_content(f), "todayCount", 0)

\* ----- legacy status files ------------------------------------------------
LegacyFiles(lg) == {d \in LegacyDates : lg[d] # "none"}

\* _migrate_old_status_files with _convert_to_unified_format: the newest
\* legacy file replaces update_info.txt and is removed
_migrate_old_status_files(st, lg) ==
    IF LegacyFiles(lg) = {} THEN [status |-> st, legacy |-> lg]
    ELSE LET d == Max(LegacyFiles(lg))
         IN [status |-> StatusFile(LegacyContent(lg[d], d)),
             legacy |-> [lg EXCEPT ![d] = "none"]]

\* _find_latest_status_file
_find_latest_status_file(st, lg) ==
    IF st.exists THEN [kind |-> "unified", date |-> NoDate]
    ELSE IF LegacyFiles(lg) = {} THEN [kind |-> "none", date |-> NoDate]
    ELSE [kind |-> "legacy", date |-> Max(LegacyFiles(lg))]

\* _parse_status_file_date
_parse_status_file_date(latest, st) ==
    IF latest.kind = "unified"
    THEN Get(_parse_status_file_content(st), "processedDate", NoDate)
    ELSE latest.date

\* _generate_date_range: every day from start to end; strptime fails on a
\* missing date and the function returns []
RECURSIVE DaysFrom(_, _)
DaysFrom(a, b) == IF a > b THEN << >> ELSE <<a>> \o DaysFrom(a + 1, b)

_generate_date_range(start, end) ==
    IF start = NoDate \/ end = NoDate THEN << >> ELSE DaysFrom(start, end)

\* the last processed date a startup reads from the status file
LastProcessedDate(st) == Get(_parse_status_file_content(st), "processedDate", NoDate)

\* ----- initial state ------------------------------------------------------
\* An empty database directory, but for legacy status files
InitDb ==
    /\ today = FirstDay
    /\ disclosed = [d \in Dates |-> {}]
    /\ files = [s \in Symbols |-> AbsentFile]
    /\ status = NoFile
    /\ legacy \in [LegacyDates -> {"none", "dated", "undated"}]
    /\ pc = "idle"
    /\ mode = "none"
    /\ decision = "none"
    /\ statusRead = NoFile
    /\ seenCount = 0
    /\ startDate = NoDate
    /\ dateList = << >>
    /\ collected = {}
    /\ pending = {}
    /\ queue = << >>
    /\ stats = ZeroStats
    /\ maxErrors = 0
    /\ forceUpdate = FALSE
    /\ byDateCalls = [d \in Dates |-> 0]
    /\ countCalls = 0
    /\ offered = {}
    /\ errorRun = 0
    /\ fetchCalls = [s \in Symbols |-> 0]
    /\ listCalls = 0
    /\ failedDates = {}
    /\ outcome = [s \in Symbols |-> "none"]

\* No caller addresses the record store by a code string
StoreUnused ==
    /\ stockCode = << >>
    /\ store = NoContent
    /\ ret = NoCall
    /\ fileNames = {}
    /\ clientCodes = {}

\* No analysis function is applied
CalcUnused ==
    /\ series = << >>
    /\ view = NoCall

\* No remote call is followed request by request
NetUnused ==
    /\ answers = << >>
    /\ attempt = 0
    /\ call = NoCall

\* No process constructs the database object
DbUnused == InitDb /\ legacy = [d \in LegacyDates |-> "none"]

Init == InitDb /\ StoreUnused /\ CalcUnused /\ NetUnused

\* ----- environment --------------------------------------------------------
\* The listed symbols whose fiscal calendar has a disclosure in the modelled
\* period (every second one of the list); the others are listed but quiet.
Reporting == {s \in Symbols : s % 2 = 1}

\* The remote publishes a statement of symbol s, dated today
NumDisclosures == Cardinality({p \in Symbols \X Dates : p[1] \in disclosed[p[2]]})

Disclose(s) ==
    /\ s \in Reporting
    /\ s \notin disclosed[today]
    /\ NumDisclosures < MaxDisclosures
    /\ disclosed' = [disclosed EXCEPT ![today] = @ \cup {s}]
    /\ UNCHANGED <<libVars, today, files, status, legacy, procVars, logVars>>

\* Midnight passes while no process runs
Tick ==
    /\ pc = "idle"
    /\ today < MaxDay
    /\ today' = today + 1
    /\ UNCHANGED <<libVars, disclosed, files, status, legacy, procVars, logVars>>

\* ----- __init__ / _check_and_update_database ------------------------------
\* What every start of a process resets
FreshRun ==
    /\ collected' = {}
    /\ pending' = {}
    /\ queue' = << >>
    /\ stats' = ZeroStats
    /\ byDateCalls' = [d \in Dates |-> 0]
    /\ offered' = {}
    /\ errorRun' = 0
    /\ fetchCalls' = [s \in Symbols |-> 0]
    /\ listCalls' = 0
    /\ failedDates' = {}
    /\ outcome' = [s \in Symbols |-> "none"]

\* The migration step, then the search for the status file
Migrated == _migrate_old_status_files(status, legacy)

LatestFile == _find_latest_status_file(Migrated.status, Migrated.legacy)

FileDate == _parse_status_file_date(LatestFile, Migrated.status)

\* No status file: _perform_full_force_update is entered
StartupNoHistory ==
    /\ pc = "idle"
    /\ LatestFile.kind = "none"
    /\ status' = Migrated.status
    /\ legacy' = Migrated.legacy
    /\ statusRead' = Migrated.status
    /\ FreshRun
    /\ seenCount' = 0
    /\ decision' = "NeedsFullResync"
    /\ mode' = "fullForce"
    /\ maxErrors' = FullForceMaxErrors
    /\ forceUpdate' = TRUE
    /\ startDate' = NoDate
    /\ dateList' = << >>
    /\ countCalls' = 0
    /\ pc' = "enumerate"
    /\ UNCHANGED <<libVars, today, disclosed, files>>

\* _get_today_financial_data_count: one by-date query; a failed query is
\* swallowed by get_financial_statements_by_date and counts as 0 rows
TodayCount(ok) == IF ok THEN Cardinality(disclosed[today]) ELSE 0

\* _check_same_day_updates with the comparison written as "not smaller"
_check_same_day_updates_AtLeast(count, st) ==
    IF count = 0 THEN FALSE ELSE count >= _get_previous_data_count(st)

\* _check_same_day_updates
_check_same_day_updates(count, st) ==
    IF count = 0 THEN FALSE ELSE count > _get_previous_data_count(st)

\* The status file is dated today: _check_same_day_updates decides
StartupSameDate ==
    /\ pc = "idle"
    /\ LatestFile.kind # "none"
    /\ FileDate = today
    /\ status' = Migrated.status
    /\ legacy' = Migrated.legacy
    /\ statusRead' = Migrated.status
    /\ FreshRun
    /\ \E ok \in BOOLEAN :
        /\ seenCount' = TodayCount(ok)
        /\ IF _check_same_day_updates(TodayCount(ok), Migrated.status)
           THEN /\ decision' = "NeedsSameDayResync"
                /\ mode' = "sameDay"
                /\ pc' = "sameDay"
           ELSE /\ decision' = "UpToDate"
                /\ mode' = "none"
                /\ pc' = "ready"
    /\ countCalls' = 1
    /\ maxErrors' = 0
    /\ forceUpdate' = FALSE
    /\ startDate' = FileDate
    /\ dateList' = << >>
    /\ UNCHANGED <<libVars, today, disclosed, files>>

\* The status file names another date (or none): _perform_date_range_update
StartupOtherDate ==
    /\ pc = "idle"
    /\ LatestFile.kind # "none"
    /\ FileDate # today
    /\ status' = Migrated.status
    /\ legacy' = Migrated.legacy
    /\ statusRead' = Migrated.status
    /\ FreshRun
    /\ seenCount' = 0
    /\ decision' = "NeedsDateRangeResync"
    /\ mode' = "dateRange"
    /\ startDate' = FileDate
    /\ dateList' = _generate_date_range(FileDate, today)
    /\ countCalls' = 0
    /\ maxErrors' = 0
    /\ forceUpdate' = FALSE
    /\ pc' = "collect"
    /\ UNCHANGED <<libVars, today, disclosed, files>>

\* ----- batch_get_market_stocks_data ---------------------------------------
\* A caller invokes batch_get_market_stocks_data on the constructed store
\* (scripts/test_14_stock_database.py)
DirectBatch ==
    /\ pc = "ready"
    /\ \E m \in 1..MaxErrorsArg, f \in BOOLEAN :
        /\ maxErrors' = m
        /\ forceUpdate' = f
    /\ mode' = "direct"
    /\ pc' = "enumerate"
    /\ stats' = ZeroStats
    /\ queue' = << >>
    /\ outcome' = [s \in Symbols |-> "none"]
    /\ fetchCalls' = [s \in Symbols |-> 0]
    /\ byDateCalls' = [d \in Dates |-> 0]
    /\ countCalls' = 0
    /\ offered' = {}
    /\ errorRun' = 0
    /\ listCalls' = 0
    /\ failedDates' = {}
    /\ collected' = {}
    /\ seenCount' = 0
    /\ decision' = "none"
    /\ statusRead' = NoFile
    /\ startDate' = NoDate
    /\ UNCHANGED <<libVars, today, disclosed, files, status, legacy, dateList, pending>>

\* A failed enumeration that falls through to _save_batch_status
EnumerateFails_WritesStatus ==
    /\ pc = "enumerate"
    /\ listCalls' = listCalls + 1
    /\ pc' = "ready"
    /\ status' = StatusFile(BatchStatusContent(today, forceUpdate))
    /\ UNCHANGED <<libVars, today, disclosed, files, legacy, mode, decision,
                   statusRead, seenCount, startDate, dateList, collected, pending,
                   queue, stats, maxErrors, forceUpdate, byDateCalls,
                   countCalls, offered, errorRun, fetchCalls, failedDates, outcome>>

\* get_market_stock_list raises: the batch ends before its loop and writes
\* no status (the constructor's caller is _perform_full_force_update, which
\* swallows the exception)
EnumerateFails ==
    /\ pc = "enumerate"
    /\ listCalls' = listCalls + 1
    /\ pc' = "ready"
    /\ UNCHANGED <<libVars, today, disclosed, files, status, legacy, mode, decision,
                   statusRead, seenCount, startDate, dateList, collected, pending,
                   queue, stats, maxErrors, forceUpdate, byDateCalls,
                   countCalls, offered, errorRun, fetchCalls, failedDates, outcome>>

\* get_market_stock_list returns the codes 1..n; an empty list makes the
\* batch return None
Enumerate ==
    /\ pc = "enumerate"
    /\ listCalls' = listCalls + 1
    /\ \E n \in 0..NumSymbols :
        /\ queue' = [i \in 1..n |-> i]
        /\ stats' = [ZeroStats EXCEPT !.total = n]
        /\ pc' = IF n = 0 THEN "ready" ELSE "batch"
    /\ UNCHANGED <<libVars, today, disclosed, files, status, legacy, mode, decision,
                   statusRead, seenCount, startDate, dateList, collected, pending,
                   maxErrors, forceUpdate, byDateCalls, countCalls, offered,
                   errorRun, fetchCalls, failedDates, outcome>>

\* The body of both loops for one code: get_financial_statements, then
\* save_stock_data when the result is not empty.
\*   "saved"  the data was fetched and written
\*   "empty"  the remote has no statement of the code
\*   "error"  the fetch raised, or save_stock_data raised after going through
\*            the first i states of the file
ProcessResults(s) ==
    {[kind |-> "error", file |-> files[s]]}
    \cup (IF FetchStatements(s) = {}
          THEN {[kind |-> "empty", file |-> files[s]]}
          ELSE {[kind |-> "saved", file |-> save_stock_data(files[s], FetchStatements(s))]}
               \cup {[kind |-> "error", file |-> SaveSteps(files[s], FetchStatements(s))[i]] :
                        i \in 1..2})

\* The loop control with a break on every error
AfterIteration_StopOnError(kind, errors, rest) ==
    IF kind = "error" THEN "batchEnd"
    ELSE IF rest = << >> THEN "batchEnd" ELSE "batch"

\* The loop control with the ceiling test written as "greater than"
AfterIteration_Exceeds(kind, errors, rest) ==
    IF kind = "error" /\ errors > maxErrors THEN "batchEnd"
    ELSE IF rest = << >> THEN "batchEnd" ELSE "batch"

\* Where the loop of batch_get_market_stocks_data stands after an iteration
\* that ended as kind, with errors errors counted and rest still to do: an
\* error that brings the count to max_errors breaks out of the loop
AfterIteration(kind, errors, rest) ==
    IF kind = "error" /\ errors >= maxErrors THEN "batchEnd"
    ELSE IF rest = << >> THEN "batchEnd" ELSE "batch"

\* The tallies with the iterations that found no data left uncounted
Tally_EmptyUncounted(st, kind) ==
    CASE kind = "saved" -> [st EXCEPT !.success = @ + 1]
      [] kind = "skipped" -> [st EXCEPT !.skipped = @ + 1]
      [] kind = "empty" -> st
      [] OTHER -> [st EXCEPT !.error = @ + 1]

\* The tallies of the batch after an iteration that ended as kind
Tally(st, kind) ==
    CASE kind = "saved" -> [st EXCEPT !.success = @ + 1]
      [] kind \in {"empty", "skipped"} -> [st EXCEPT !.skipped = @ + 1]
      [] OTHER -> [st EXCEPT !.error = @ + 1]

\* The skip test without its force_update part
SkipsExisting_IgnoringForce(code) == FileExists(code)

\* The test that skips a code whose file exists, unless the update is forced
SkipsExisting(code) == ~forceUpdate /\ FileExists(code)

\* One iteration of the loop of batch_get_market_stocks_data
BatchStep ==
    /\ pc = "batch"
    /\ queue # << >>
    /\ LET code == Head(queue)
       IN IF SkipsExisting(code)
          THEN /\ stats' = Tally(stats, "skipped")
               /\ outcome' = [outcome EXCEPT ![code] = "skipped"]
               /\ errorRun' = 0
               /\ pc' = AfterIteration("skipped", stats.error, Tail(queue))
               /\ UNCHANGED <<files, fetchCalls>>
          ELSE \E r \in ProcessResults(code) :
               /\ fetchCalls' = [fetchCalls EXCEPT ![code] = @ + 1]
               /\ files' = [files EXCEPT ![code] = r.file]
               /\ outcome' = [outcome EXCEPT ![code] = r.kind]
               /\ errorRun' = IF r.kind = "error" THEN errorRun + 1 ELSE 0
               /\ stats' = Tally(stats, r.kind)
               /\ pc' = AfterIteration(r.kind, Tally(stats, r.kind).error, Tail(queue))
    /\ queue' = Tail(queue)
    /\ UNCHANGED <<libVars, today, disclosed, status, legacy, mode, decision, statusRead,
                   seenCount, startDate, dateList, collected, pending,
                   maxErrors, forceUpdate, byDateCalls, countCalls, offered,
                   listCalls, failedDates>>

\* _save_batch_status, at the end of batch_get_market_stocks_data
BatchFinish ==
    /\ pc = "batchEnd"
    /\ status' = StatusFile(BatchStatusContent(today, forceUpdate))
    /\ pc' = "ready"
    /\ UNCHANGED <<libVars, today, disclosed, files, legacy, mode, decision, statusRead,
                   seenCount, startDate, dateList, collected, pending, queue,
                   stats, maxErrors, forceUpdate, logVars>>

\* ----- date-range and same-day updates ------------------------------------
\* get_financial_statements_by_date: the codes of the rows returned for one
\* date; an exception of the remote call is caught inside and an empty
\* DataFrame returned
get_financial_statements_by_date(d, ok) == IF ok THEN disclosed[d] ELSE {}

\* One iteration of the loop of _collect_stock_codes_from_dates
CollectStep ==
    /\ pc = "collect"
    /\ dateList # << >>
    /\ LET d == Head(dateList)
       IN /\ byDateCalls' = [byDateCalls EXCEPT ![d] = @ + 1]
          /\ offered' = offered \cup disclosed[d]
          /\ \E ok \in BOOLEAN :
              /\ collected' = collected \cup get_financial_statements_by_date(d, ok)
              /\ failedDates' = IF ok THEN failedDates ELSE failedDates \cup {d}
    /\ dateList' = Tail(dateList)
    /\ UNCHANGED <<libVars, today, disclosed, files, status, legacy, pc, mode, decision,
                   statusRead, seenCount, startDate, pending, queue, stats,
                   maxErrors, forceUpdate, countCalls, errorRun, fetchCalls,
                   listCalls, outcome>>

\* _perform_date_range_update after the collection: without any collected
\* code it returns None, otherwise the affected-symbol loop starts
CollectDone ==
    /\ pc = "collect"
    /\ dateList = << >>
    /\ pending' = collected
    /\ pc' = IF collected = {} THEN "ready" ELSE "update"
    /\ UNCHANGED <<libVars, today, disclosed, files, status, legacy, mode, decision,
                   statusRead, seenCount, startDate, dateList, collected, queue,
                   stats, maxErrors, forceUpdate, logVars>>

\* _perform_same_day_update up to its loop: today's rows are queried again;
\* an empty answer makes it return None
SameDayQuery ==
    /\ pc = "sameDay"
    /\ byDateCalls' = [byDateCalls EXCEPT ![today] = @ + 1]
    /\ offered' = disclosed[today]
    /\ \E ok \in BOOLEAN :
        LET codes == get_financial_statements_by_date(today, ok)
        IN /\ collected' = codes
           /\ pending' = codes
           /\ failedDates' = IF ok THEN failedDates ELSE failedDates \cup {today}
           /\ pc' = IF codes = {} THEN "ready" ELSE "update"
    /\ UNCHANGED <<libVars, today, disclosed, files, status, legacy, mode, decision,
                   statusRead, seenCount, startDate, dateList, queue, stats,
                   maxErrors, forceUpdate, countCalls, errorRun, fetchCalls,
                   listCalls, outcome>>

\* One iteration of the loop of _update_collected_stocks
UpdateStep ==
    /\ pc = "update"
    /\ \E code \in pending :
        /\ pending' = pending \ {code}
        /\ pc' = IF pending = {code} THEN "status" ELSE "update"
        /\ \E r \in ProcessResults(code) :
            /\ fetchCalls' = [fetchCalls EXCEPT ![code] = @ + 1]
            /\ files' = [files EXCEPT ![code] = r.file]
            /\ outcome' = [outcome EXCEPT ![code] = r.kind]
            /\ errorRun' = IF r.kind = "error" THEN errorRun + 1 ELSE 0
            /\ stats' = IF r.kind = "saved" THEN [stats EXCEPT !.success = @ + 1]
                        ELSE stats
    /\ UNCHANGED <<libVars, today, disclosed, status, legacy, mode, decision, statusRead,
                   seenCount, startDate, dateList, collected, queue,
                   maxErrors, forceUpdate, byDateCalls, countCalls, offered,
                   listCalls, failedDates>>

\* _save_date_range_status / _save_same_day_status: today's rows are counted
\* by one more by-date query, the previous count is read from the file
SaveStatus ==
    /\ pc = "status"
    /\ countCalls' = countCalls + 1
    /\ \E ok \in BOOLEAN :
        status' = StatusFile(
            IF mode = "sameDay"
            THEN SameDayStatusContent(today, TodayCount(ok),
                                      _get_previous_data_count(status))
            ELSE DateRangeStatusContent(today, TodayCount(ok),
                                        _get_previous_data_count(status)))
    /\ pc' = "ready"
    /\ UNCHANGED <<libVars, today, disclosed, files, legacy, mode, decision, statusRead,
                   seenCount, startDate, dateList, collected, pending, queue,
                   stats, maxErrors, forceUpdate, byDateCalls, offered, errorRun,
                   fetchCalls, listCalls, failedDates, outcome>>

\* ----- end of a process ---------------------------------------------------
\* The script that constructed the store ends
NoProcess ==
    /\ pc' = "idle"
    /\ mode' = "none"
    /\ decision' = "none"
    /\ statusRead' = NoFile
    /\ seenCount' = 0
    /\ startDate' = NoDate
    /\ dateList' = << >>
    /\ collected' = {}
    /\ pending' = {}
    /\ queue' = << >>
    /\ stats' = ZeroStats
    /\ maxErrors' = 0
    /\ forceUpdate' = FALSE
    /\ byDateCalls' = [d \in Dates |-> 0]
    /\ countCalls' = 0
    /\ offered' = {}
    /\ errorRun' = 0
    /\ fetchCalls' = [s \in Symbols |-> 0]
    /\ listCalls' = 0
    /\ failedDates' = {}
    /\ outcome' = [s \in Symbols |-> "none"]

Exit ==
    /\ pc = "ready"
    /\ NoProcess
    /\ UNCHANGED <<libVars, today, disclosed, files, status, legacy>>

\* The process is killed between two steps
Crash ==
    /\ pc \notin {"idle", "ready"}
    /\ NoProcess
    /\ UNCHANGED <<libVars, today, disclosed, files, status, legacy>>

\* The code a loop is about to save
Saving ==
    IF pc = "batch" /\ queue # << >> /\ ~SkipsExisting(Head(queue))
    THEN {Head(queue)}
    ELSE IF pc = "update" THEN pending ELSE {}

\* The process is killed inside save_stock_data, after open() or in the
\* middle of json.dump
CrashInSave ==
    /\ \E code \in Saving :
        /\ FetchStatements(code) # {}
        /\ files' = [files EXCEPT ![code] = SaveSteps(files[code], FetchStatements(code))[2]]
    /\ NoProcess
    /\ UNCHANGED <<libVars, today, disclosed, status, legacy>>

Next ==
    \/ \E s \in Symbols : Disclose(s)
    \/ Tick
    \/ StartupNoHistory
    \/ StartupSameDate
    \/ StartupOtherDate
    \/ EnumerateFails
    \/ Enumerate
    \/ BatchStep
    \/ BatchFinish
    \/ CollectStep
    \/ CollectDone
    \/ SameDayQuery
    \/ UpdateStep
    \/ SaveStatus
    \/ Exit
    \/ Crash
    \/ CrashInSave

\* Applications that only construct the database, day after day
Spec == Init /\ [][Next]_vars

\* One day of the batch acquisition script: it constructs the database (the
\* startup cycle above) and then calls batch_get_market_stocks_data itself
NextBatch ==
    \/ \E s \in Symbols : Disclose(s)
    \/ StartupNoHistory
    \/ StartupSameDate
    \/ StartupOtherDate
    \/ DirectBatch
    \/ EnumerateFails
    \/ Enumerate
    \/ BatchStep
    \/ BatchFinish
    \/ CollectStep
    \/ CollectDone
    \/ SameDayQuery
    \/ UpdateStep
    \/ SaveStatus
    \/ Exit
    \/ Crash
    \/ CrashInSave

SpecBatch == Init /\ [][NextBatch]_vars

\* ===== record store: codes as strings, record lists, files by name ========
\* A code is a sequence of characters.  "0" is the pad character, "A" stands
\* for every other alphanumeric character, "-" for every other character.
Chars == {"0", "A", "-"}

\* str.isalnum
AlNum == {"0", "A"}

Codes == UNION {[1..n -> Chars] : n \in 0..MaxCodeLen}

_normalize_stock_code_PadInFront(c) ==
    IF c = << >> THEN c
    ELSE IF Len(c) = 4 THEN <<"0">> \o c
    ELSE c

_normalize_stock_code(c) ==
    IF c = << >> THEN c
    ELSE IF Len(c) = 4 THEN Append(c, "0")
    ELSE c

validate_stock_code(c) ==
    IF c = << >> THEN FALSE
    ELSE IF Len(c) \notin {4, 5} THEN FALSE
    ELSE \A i \in 1..Len(c) : c[i] \in AlNum

\* The other spelling of a code: 4 characters <-> 5 characters ending in "0"
OtherSpelling(c) ==
    IF Len(c) = 4 THEN Append(c, "0")
    ELSE IF Len(c) = 5 /\ c[5] = "0" THEN SubSeq(c, 1, 4)
    ELSE c

Spellings(c) == {c, OtherSpelling(c)}

\* Cell values of a DataFrame row and of a JSON record
NaN == [cell |-> "NaN"]
None == [cell |-> "None"]
Text(t) == [cell |-> "str", text |-> t]
Timestamp(d) == [cell |-> "Timestamp", day |-> d]
IsTimestamp(v) == v.cell = "Timestamp"
isoformat(v) == [cell |-> "str", isoday |-> v.day]

\* The rows a DataFrame of the model is made of
RowPool ==
    { [DisclosedDate |-> Timestamp(2), OrdinaryProfit |-> NaN],
      [DisclosedDate |-> Timestamp(1), OrdinaryProfit |-> Text("100")] }

DataFrames == UNION {[1..n -> RowPool] : n \in 0..MaxRecords}

\* _convert_dataframe_to_json_serializable, for a DataFrame argument
ConvertCell(v) ==
    IF v = NaN THEN None
    ELSE IF IsTimestamp(v) THEN isoformat(v)
    ELSE v

_convert_dataframe_to_json_serializable(data) ==
    [i \in 1..Len(data) |->
        [col \in DOMAIN data[i] |-> ConvertCell(data[i][col])]]

\* The content of a record file: JSON text that parses to a dict, or text
\* json.load rejects (an empty or partly written file)
Unparsable == [st |-> "unparsable"]

JsonFile(normalized, original, data) ==
    [st |-> "json",
     metadata |-> [code |-> normalized, original_code |-> original,
                   data_count |-> IF data = << >> THEN 0 ELSE Len(data)],
     raw_data |-> _convert_dataframe_to_json_serializable(data)]

SaveFile_UnderOriginalCode(files_, c, data) ==
    [n \in DOMAIN files_ \cup {c} |->
        IF n = c THEN JsonFile(_normalize_stock_code(c), c, data) ELSE files_[n]]

\* save_stock_data(code, financial_data) for a DataFrame: the files afterwards
SaveFile(files_, c, data) ==
    [n \in DOMAIN files_ \cup {_normalize_stock_code(c)} |->
        IF n = _normalize_stock_code(c)
        THEN JsonFile(_normalize_stock_code(c), c, data)
        ELSE files_[n]]

load_stock_data_Raising(files_, c) ==
    IF _normalize_stock_code(c) \notin DOMAIN files_ THEN None
    ELSE IF files_[_normalize_stock_code(c)].st = "unparsable" THEN [cell |-> "Exception"]
    ELSE [metadata |-> files_[_normalize_stock_code(c)].metadata,
          raw_data |-> files_[_normalize_stock_code(c)].raw_data]

\* load_stock_data(code): None when the file is missing and when json.load
\* raises (the exception is caught)
load_stock_data(files_, c) ==
    IF _normalize_stock_code(c) \notin DOMAIN files_ THEN None
    ELSE IF files_[_normalize_stock_code(c)].st = "unparsable" THEN None
    ELSE [metadata |-> files_[_normalize_stock_code(c)].metadata,
          raw_data |-> files_[_normalize_stock_code(c)].raw_data]

\* What a name holds
FileContent(files_, name) == IF name \in DOMAIN files_ THEN files_[name] ELSE [st |-> "missing"]

\* The previous call, as a later call's record keeps it
Earlier(r) == IF r.op = "save" THEN r ELSE [op |-> r.op]

\* The store reads nothing of a code but its length, and compares names: the
\* codes used with it vary the length and the last character
StoreCodes == {c \in Codes : \A i \in 1..(Len(c) - 1) : c[i] = "A"}

\* A caller picks the code it works with
InitStore ==
    /\ stockCode \in StoreCodes
    /\ store = NoContent
    /\ ret = NoCall
    /\ fileNames = {}
    /\ clientCodes = {}
    /\ DbUnused
    /\ CalcUnused
    /\ NetUnused

\* db.save_stock_data(c, data)
SaveCall ==
    /\ \E c \in Spellings(stockCode), data \in DataFrames :
        /\ store' = SaveFile(store, c, data)
        /\ ret' = [op |-> "save", code |-> c, arg |-> data,
                   over |-> FileContent(store, _normalize_stock_code(c))]
        /\ fileNames' = fileNames \cup {_normalize_stock_code(c)}
    /\ UNCHANGED <<dbVars, calcVars, netVars, stockCode, clientCodes>>

\* db.load_stock_data(c)
LoadCall ==
    /\ \E c \in Spellings(stockCode) :
        /\ ret' = [op |-> "load", code |-> c, out |-> load_stock_data(store, c),
                   after |-> Earlier(ret)]
        /\ fileNames' = fileNames \cup {_normalize_stock_code(c)}
    /\ UNCHANGED <<dbVars, calcVars, netVars, stockCode, store, clientCodes>>

\* db._normalize_stock_code(c)
NormalizeCall ==
    /\ \E c \in Spellings(stockCode) :
        ret' = [op |-> "normalize", code |-> c, out |-> _normalize_stock_code(c)]
    /\ UNCHANGED <<dbVars, calcVars, netVars, stockCode, store, fileNames, clientCodes>>

\* StockFinancialDatabase.validate_stock_code(c)
ValidateCall ==
    /\ \E c \in Spellings(stockCode) :
        ret' = [op |-> "validate", code |-> c, out |-> validate_stock_code(c)]
    /\ UNCHANGED <<dbVars, calcVars, netVars, stockCode, store, fileNames, clientCodes>>

\* A process is killed inside save_stock_data, between open(filename, 'w')
\* and the end of json.dump: the file is left empty or partly written
KilledInSave ==
    /\ \E c \in Spellings(stockCode) :
        /\ store' = [n \in DOMAIN store \cup {_normalize_stock_code(c)} |->
                        IF n = _normalize_stock_code(c) THEN Unparsable ELSE store[n]]
        /\ ret' = [op |-> "killed", code |-> c]
        /\ fileNames' = fileNames \cup {_normalize_stock_code(c)}
    /\ UNCHANGED <<dbVars, calcVars, netVars, stockCode, clientCodes>>

\* What client.get_fins_statements can do: raise, or return rows in any order
RemoteResponses ==
    {[raises |-> TRUE]} \cup {[raises |-> FALSE, rows |-> d] : d \in DataFrames}

Raised == [cell |-> "Exception"]

Without(rows, i) == SubSeq(rows, 1, i - 1) \o SubSeq(rows, i + 1, Len(rows))

Newest(rows) ==
    CHOOSE i \in 1..Len(rows) :
        /\ \A j \in 1..Len(rows) : rows[j].DisclosedDate.day <= rows[i].DisclosedDate.day
        /\ \A j \in 1..(i - 1) : rows[j].DisclosedDate.day < rows[i].DisclosedDate.day

\* sort_values('DisclosedDate', ascending=False).reset_index(drop=True); rows
\* of one date are equal rows in this model, so their order shows nowhere
RECURSIVE SortNewestFirst(_)
SortNewestFirst(rows) ==
    IF rows = << >> THEN << >>
    ELSE <<rows[Newest(rows)]>> \o SortNewestFirst(Without(rows, Newest(rows)))

\* get_financial_statements(code), given what the remote does
get_financial_statements(resp) ==
    IF resp.raises THEN Raised ELSE SortNewestFirst(resp.rows)

\* The part of a cache lookup after load_stock_data returned None: fetch,
\* and save what was fetched unless it is empty.  onEmpty is what the caller
\* makes of an empty DataFrame, onError what it makes of an exception.
FetchAndSave(op, c, resp, onEmpty, onError) ==
    /\ clientCodes' = clientCodes \cup {_normalize_stock_code(c)}
    /\ fileNames' = fileNames \cup {_normalize_stock_code(c)}
    /\ IF resp.raises
       THEN /\ store' = store
            /\ ret' = [op |-> op, code |-> c, out |-> onError,
                       found |-> FileContent(store, _normalize_stock_code(c)).st,
                       asked |-> {_normalize_stock_code(c)}, got |-> resp]
       ELSE IF get_financial_statements(resp) = << >>
       THEN /\ store' = store
            /\ ret' = [op |-> op, code |-> c, out |-> onEmpty,
                       found |-> FileContent(store, _normalize_stock_code(c)).st,
                       asked |-> {_normalize_stock_code(c)}, got |-> resp]
       ELSE /\ store' = SaveFile(store, c, get_financial_statements(resp))
            /\ ret' = [op |-> op, code |-> c,
                       out |-> load_stock_data(store', c),
                       found |-> FileContent(store, _normalize_stock_code(c)).st,
                       asked |-> {_normalize_stock_code(c)}, got |-> resp]

\* The part of a cache lookup when load_stock_data returned data
UseExisting(op, c) ==
    /\ store' = store
    /\ clientCodes' = clientCodes
    /\ fileNames' = fileNames \cup {_normalize_stock_code(c)}
    /\ ret' = [op |-> op, code |-> c, out |-> load_stock_data(store, c),
               found |-> FileContent(store, _normalize_stock_code(c)).st,
               asked |-> {}, got |-> None]

\* db.get_or_update_stock_data(c)
GetOrUpdateCall ==
    /\ \E c \in Spellings(stockCode), resp \in RemoteResponses :
        IF load_stock_data(store, c) # None
        THEN UseExisting("get_or_update_stock_data", c)
        ELSE FetchAndSave("get_or_update_stock_data", c, resp, Raised, Raised)
    /\ UNCHANGED <<dbVars, calcVars, netVars, stockCode>>

\* PreBreakStockAnalyzer.get_financial_data(c)
GetFinancialDataCall ==
    /\ \E c \in Spellings(stockCode), resp \in RemoteResponses :
        IF load_stock_data(store, c) # None
        THEN UseExisting("get_financial_data", c)
        ELSE FetchAndSave("get_financial_data", c, resp, None, None)
    /\ UNCHANGED <<dbVars, calcVars, netVars, stockCode>>

NextStore ==
    \/ SaveCall
    \/ LoadCall
    \/ GetOrUpdateCall
    \/ GetFinancialDataCall
    \/ NormalizeCall
    \/ ValidateCall
    \/ KilledInSave

\* The record store as its callers use it, for one symbol
SpecStore == InitStore /\ [][NextStore]_vars

\* A script checks and normalizes the code it was given
InitCode ==
    /\ stockCode \in Codes
    /\ store = NoContent
    /\ ret = NoCall
    /\ fileNames = {}
    /\ clientCodes = {}
    /\ DbUnused
    /\ CalcUnused
    /\ NetUnused

NextCode ==
    \/ NormalizeCall
    \/ ValidateCall

SpecCode == InitCode /\ [][NextCode]_vars

\* ----- period reconstruction (main_pre_break_stock.py) ------------------------

\* The longest quarterly list drawn, and the cumulative amounts its cells hold
MaxQuarters == 3
Amounts == {100, 220}

\* A cell holding the decimal spelling of n, and the float Python makes of it
Num(n) == [cell |-> "str", num |-> n]
Float(x) == [cell |-> "float", val |-> x]
IsNum(v) == "num" \in DOMAIN v

\* `v is not None and v != '' and v != 'N/A'`
Present(v) == v # None /\ v # Text("") /\ v # Text("N/A")

\* Present and float(v) does not raise
Parseable(v) == Present(v) /\ IsNum(v)

PeriodTypes == {"1Q", "2Q", "3Q", "FY"}
CumulativeCells == {None, Text(""), Text("N/A"), Text("abc")} \cup {Num(n) : n \in Amounts}
QuarterRows == [TypeOfCurrentPeriod : PeriodTypes, Cumulative : CumulativeCells]

\* One fiscal year of cumulative values, newest row first
FiscalYear ==
    << [TypeOfCurrentPeriod |-> "FY", Cumulative |-> Num(460)],
       [TypeOfCurrentPeriod |-> "3Q", Cumulative |-> Num(300)],
       [TypeOfCurrentPeriod |-> "2Q", Cumulative |-> Num(220)],
       [TypeOfCurrentPeriod |-> "1Q", Cumulative |-> Num(100)] >>

\* The frames of at most n rows, and the fiscal year above
QuarterLists(n) == UNION {[1..k -> QuarterRows] : k \in 0..n} \cup {FiscalYear}

target_period(period_type) ==
    CASE period_type = "2Q" -> "1Q"
      [] period_type = "3Q" -> "2Q"
      [] period_type = "FY" -> "3Q"
      [] OTHER -> "none"

MinOf(S) == CHOOSE x \in S : \A y \in S : x <= y

\* Rows the scan of older rows may also start from
_find_previous_period_FromStart(df, current_index) == 1..Len(df)

\* Rows the scan visits: range(current_index + 1, len(df))
_find_previous_period_range(df, current_index) == (current_index + 1)..Len(df)

\* The first visited row of the target type whose value parses; rows of the
\* target type whose value is absent or does not parse are passed over
_find_previous_period(df, current_index, period_type) ==
    LET hits == {j \in _find_previous_period_range(df, current_index) :
                    /\ df[j].TypeOfCurrentPeriod = target_period(period_type)
                    /\ Parseable(df[j].Cumulative)}
    IN  IF target_period(period_type) = "none" \/ hits = {}
        THEN None
        ELSE Float(df[MinOf(hits)].Cumulative.num)

\* The Period* column _calculate_period_values adds, row by row
_calculate_period_values(df) ==
    [i \in 1..Len(df) |->
        LET row == df[i]
            previous == _find_previous_period(df, i, row.TypeOfCurrentPeriod)
        IN  IF ~Parseable(row.Cumulative) THEN None
            ELSE IF row.TypeOfCurrentPeriod = "1Q" THEN Float(row.Cumulative.num)
            ELSE IF previous # None THEN Float(row.Cumulative.num - previous.val)
            ELSE Float(row.Cumulative.num)]

InitPeriod ==
    /\ series \in QuarterLists(MaxQuarters)
    /\ view = NoCall
    /\ DbUnused
    /\ StoreUnused
    /\ NetUnused

CalculatePeriodValues ==
    /\ view = NoCall
    /\ view' = [op |-> "_calculate_period_values", out |-> _calculate_period_values(series)]
    /\ UNCHANGED <<dbVars, storeVars, netVars, series>>

NextPeriod == CalculatePeriodValues

SpecPeriod == InitPeriod /\ [][NextPeriod]_vars

\* ----- year-over-year growth (main_pre_break_stock.py) -----------------------

\* The longest list of reconstructed rows drawn, the disclosure years and the
\* period values they hold
MaxGrowthRows == 3
ThisYear == 2024
Years == {ThisYear - 1, ThisYear}
PeriodAmounts == {0 - 50, 0, 30}

Abs(x) == IF x < 0 THEN 0 - x ELSE x

\* n / d to the nearest integer, d > 0, an exact half going to the even side
RoundDiv(n, d) ==
    LET q == n \div d
        r == n % d
    IN  IF 2 * r < d THEN q
        ELSE IF 2 * r > d THEN q + 1
        ELSE IF q % 2 = 0 THEN q ELSE q + 1

\* round(x, 1) of a percentage, held as a whole number of tenths of a percent
Rate(tenths) == [cell |-> "float", tenths |-> tenths]

\* round(((current - previous) / abs(previous)) * 100, 1)
growth_rate(current, previous) ==
    Rate(RoundDiv((current - previous) * 1000, Abs(previous)))

\* current_date.year; a disclosure date of these rows is told by its year alone
year(date) == date.day

YearCells == {None} \cup {Timestamp(y) : y \in Years}
PeriodCells == {None} \cup {Float(x) : x \in PeriodAmounts}
GrowthRows == [TypeOfCurrentPeriod : {"1Q", "FY"}, DisclosedDate : YearCells, Period : PeriodCells]

\* A loss of 50 a year ago turned into a profit of 50
Turnaround ==
    << [TypeOfCurrentPeriod |-> "FY", DisclosedDate |-> Timestamp(ThisYear), Period |-> Float(50)],
       [TypeOfCurrentPeriod |-> "FY", DisclosedDate |-> Timestamp(ThisYear - 1), Period |-> Float(0 - 50)] >>

\* The frames of at most n rows, and the turnaround above
GrowthLists(n) == UNION {[1..k -> GrowthRows] : k \in 0..n} \cup {Turnaround}

\* The position of the row _find_previous_year_same_period returns, 0 for None
_find_previous_year_same_period(df, current_index, period_type) ==
    LET current_date == df[current_index].DisclosedDate
        hits == {j \in (current_index + 1)..Len(df) :
                    /\ df[j].TypeOfCurrentPeriod = period_type
                    /\ df[j].DisclosedDate # None
                    /\ year(df[j].DisclosedDate) = year(current_date) - 1}
    IN  IF period_type \notin {"1Q", "2Q", "3Q", "FY"} THEN 0
        ELSE IF current_date = None THEN 0
        ELSE IF hits = {} THEN 0
        ELSE MinOf(hits)

\* The *GrowthRate column _calculate_growth_rates adds, row by row
_calculate_growth_rates(df) ==
    [i \in 1..Len(df) |->
        LET previous_year_data == _find_previous_year_same_period(df, i, df[i].TypeOfCurrentPeriod)
            current == df[i].Period
            previous == df[previous_year_data].Period
        IN  IF previous_year_data = 0 THEN None
            ELSE IF current # None /\ previous # None /\ current.val # 0 /\ previous.val # 0
                 THEN growth_rate(current.val, previous.val)
                 ELSE None]

\* The frame carries the Period* column _calculate_period_values added
IsReconstructed(df) == \A i \in 1..Len(df) : "Period" \in DOMAIN df[i]

InitGrowth ==
    /\ series \in GrowthLists(MaxGrowthRows)
    /\ view = NoCall
    /\ DbUnused
    /\ StoreUnused
    /\ NetUnused

CalculateGrowthRates ==
    /\ view = NoCall
    /\ IsReconstructed(series)
    /\ view' = [op |-> "_calculate_growth_rates", out |-> _calculate_growth_rates(series)]
    /\ UNCHANGED <<dbVars, storeVars, netVars, series>>

NextGrowth == CalculateGrowthRates

SpecGrowth == InitGrowth /\ [][NextGrowth]_vars

\* ----- annual series (main_pre_break_stock.py, old_04_statements.py) ---------

\* The longest annual list drawn, the longest one whose two profit columns
\* have gaps, and the longest one holding other documents
MaxAnnual == 12
MaxGaps == 3
MaxMixed == 2

\* The number of newest annual rows calculate_profit_growth_10years keeps
HeadRows == 11

Statements(period) == Text(period \o "FinancialStatements_Consolidated_JP")
Forecast == Text("EarnForecastRevision")

\* df['TypeOfDocument'].str.contains('FinancialStatements', na=False)
ContainsFinancialStatements(doc) ==
    doc # None /\ doc \in {Statements(p) : p \in PeriodTypes}

\* A date string of raw_data, and pd.to_datetime of it
DateString(y) == isoformat(Timestamp(y))
to_datetime(v) == Timestamp(v.isoday)

AnnualRow(period, doc, y, ordinary, operating) ==
    [TypeOfCurrentPeriod |-> period, TypeOfDocument |-> doc, DisclosedDate |-> DateString(y),
     OrdinaryProfit |-> ordinary, OperatingProfit |-> operating]

\* Annual statements of consecutive years, newest first
Consecutive(ordinary, operating) ==
    [i \in 1..Len(ordinary) |->
        AnnualRow("FY", Statements("FY"), ThisYear + 1 - i, ordinary[i], operating[i])]

Constantly(n, v) == [i \in 1..n |-> v]

AnnualLists(n) ==
    {Consecutive(o, Constantly(Len(o), Num(900))) :
        o \in UNION {[1..k -> {Num(1000), Num(1100)}] : k \in 0..n}}

GapLists(n) ==
    UNION {{Consecutive(o, p) : o \in [1..k -> {None, Num(1000), Num(1100)}],
                                p \in [1..k -> {Text("abc"), Num(0), Num(900)}]} :
           k \in 0..n}

MixedKinds == {<<"FY", Statements("FY")>>, <<"FY", Forecast>>, <<"1Q", Statements("1Q")>>}

\* Rows of any kind, one a year, newest first as the store saves them or
\* oldest first as the remote lists them
MixedLists(n) ==
    UNION {{[i \in 1..m |-> AnnualRow(k[i][1], k[i][2], ThisYear + 1 - y[i], o[i], p[i])] :
                k \in [1..m -> MixedKinds],
                y \in {[i \in 1..m |-> i], [i \in 1..m |-> m + 1 - i]},
                o \in [1..m -> {Text("N/A"), Num(1000), Num(1100)}],
                p \in [1..m -> {Text(""), Num(900)}]} :
           m \in 0..n}

FinancialData(annual, gaps, mixed) == AnnualLists(annual) \cup GapLists(gaps) \cup MixedLists(mixed)

\* DisclosedDate >= datetime.now() - timedelta(days=365 * n), every disclosure
\* falling on today's calendar day of its year, at midnight
within_years(date, n) == year(date) > ThisYear - n

\* The rows at the positions kept, in their order (a boolean-mask selection)
RECURSIVE SelectFrom(_, _, _)
SelectFrom(rows, keep, k) ==
    IF k > Len(rows) THEN << >>
    ELSE IF k \in keep THEN <<rows[k]>> \o SelectFrom(rows, keep, k + 1)
    ELSE SelectFrom(rows, keep, k + 1)

SelectRows(rows, keep) == SelectFrom(rows, keep, 1)

\* The positions of the annual financial statements, of the financial
\* statements, of the rows disclosed within n years, of the defined rates
AnnualMask(rows) ==
    {i \in 1..Len(rows) : /\ rows[i].TypeOfCurrentPeriod = "FY"
                          /\ ContainsFinancialStatements(rows[i].TypeOfDocument)}
StatementMask(rows) ==
    {i \in 1..Len(rows) : ContainsFinancialStatements(rows[i].TypeOfDocument)}
WindowMask(rows, n) == {i \in 1..Len(rows) : within_years(rows[i].DisclosedDate, n)}
ValidMask(rates) == {i \in 1..Len(rates) : rates[i] # None}

WithTimestamps(rows) ==
    [i \in 1..Len(rows) |-> [rows[i] EXCEPT !.DisclosedDate = to_datetime(@)]]

head(rows, n) == SubSeq(rows, 1, IF Len(rows) < n THEN Len(rows) ELSE n)

\* The rows whose ordinary profit is counted available, and likewise operating
ordinary_profit_available(df) == {i \in 1..Len(df) : Parseable(df[i].OrdinaryProfit)}
operating_profit_available(df) == {i \in 1..Len(df) : Parseable(df[i].OperatingProfit)}

\* old_04_statements.determine_profit_type: ordinary if any row has it
determine_profit_type(df) ==
    IF df = << >> THEN "ordinary"
    ELSE IF Cardinality(ordinary_profit_available(df)) > 0 THEN "ordinary"
    ELSE "operating"

\* The selection satisfied with one row that has it
_determine_profit_type_AnyRow(df) ==
    IF df = << >> THEN "ordinary"
    ELSE IF Cardinality(ordinary_profit_available(df)) > 0 THEN "ordinary"
    ELSE "operating"

\* PreBreakStockAnalyzer._determine_profit_type: ordinary if every row has it
_determine_profit_type(df) ==
    IF df = << >> THEN "ordinary"
    ELSE IF Cardinality(ordinary_profit_available(df)) = Len(df) THEN "ordinary"
    ELSE "operating"

profit_column(row, profit_type) ==
    IF profit_type = "ordinary" THEN row.OrdinaryProfit ELSE row.OperatingProfit

\* The conversion taking an absent value for zero
to_value_MissingIsZero(x) ==
    IF ~Present(x) THEN Float(0)
    ELSE IF ~IsNum(x) THEN Raised
    ELSE Float(x.num)

\* float(x) if x is not None and x != '' and x != 'N/A' else None; Raised when
\* float() raises
to_value(x) ==
    IF ~Present(x) THEN None
    ELSE IF ~IsNum(x) THEN Raised
    ELSE Float(x.num)

\* The list growth_rates of calculate_profit_growth_10years
growth_rates(df, profit_type) ==
    [i \in 1..Len(df) |->
        IF i = Len(df) THEN None
        ELSE LET current_value == to_value(profit_column(df[i], profit_type))
                 previous_value == to_value(profit_column(df[i + 1], profit_type))
             IN  IF current_value = Raised THEN None
                 ELSE IF current_value # None /\ previous_value = Raised THEN None
                 ELSE IF current_value = None \/ previous_value = None THEN None
                 ELSE IF previous_value.val # 0
                      THEN growth_rate(current_value.val, previous_value.val)
                      ELSE None]

RECURSIVE SumTenths(_)
SumTenths(rates) ==
    IF rates = << >> THEN 0 ELSE Head(rates).tenths + SumTenths(Tail(rates))

\* sum(valid_growth_rates) / len(valid_growth_rates), kept as the two numbers
Average(rates) == [cell |-> "float", sum |-> SumTenths(rates), len |-> Len(rates)]

\* calculate_profit_growth_10years(financial_data): the rows kept, the profit
\* type chosen, the per-year rates and the value returned
calculate_profit_growth_10years(raw_data) ==
    LET filtered == SelectRows(raw_data, AnnualMask(raw_data))
        annual_data == SortNewestFirst(WithTimestamps(filtered))
        df_11years == head(annual_data, HeadRows)
        profit_type == _determine_profit_type(df_11years)
        rates == growth_rates(df_11years, profit_type)
        valid_growth_rates == SelectRows(rates, ValidMask(rates))
    IN  IF raw_data = << >> \/ Len(annual_data) < 2
        THEN [df |-> << >>, profit_type |-> "none", growth_rates |-> << >>, out |-> None]
        ELSE [df |-> df_11years, profit_type |-> profit_type, growth_rates |-> rates,
              out |-> IF valid_growth_rates = << >> THEN None
                      ELSE Average(valid_growth_rates)]

\* The number of newest rows calculate_profit_growth_1year reports
LatestPeriods == 4

\* calculate_profit_growth_1year(financial_data): the rows of the three-year
\* window, the profit type chosen, and the four rates returned
calculate_profit_growth_1year(raw_data) ==
    LET financial_statements ==
            WithTimestamps(SelectRows(raw_data, StatementMask(raw_data)))
        past_3years_data ==
            SortNewestFirst(SelectRows(financial_statements,
                                       WindowMask(financial_statements, 3)))
        profit_type == _determine_profit_type(past_3years_data)
        PeriodProfit ==
            _calculate_period_values(
                [i \in 1..Len(past_3years_data) |->
                    [TypeOfCurrentPeriod |-> past_3years_data[i].TypeOfCurrentPeriod,
                     Cumulative |-> profit_column(past_3years_data[i], profit_type)]])
        period_values_df ==
            [i \in 1..Len(past_3years_data) |->
                [TypeOfCurrentPeriod |-> past_3years_data[i].TypeOfCurrentPeriod,
                 DisclosedDate |-> past_3years_data[i].DisclosedDate,
                 Period |-> PeriodProfit[i]]]
        latest_2years_df ==
            SelectRows(period_values_df, WindowMask(period_values_df, 2))
        latest_4periods ==
            head(_calculate_growth_rates(latest_2years_df), LatestPeriods)
    IN  IF past_3years_data = << >>
        THEN [df |-> << >>, profit_type |-> "none", out |-> Constantly(LatestPeriods, None)]
        ELSE [df |-> past_3years_data, profit_type |-> profit_type,
              out |-> [i \in 1..LatestPeriods |->
                         IF i <= Len(latest_4periods) THEN latest_4periods[i] ELSE None]]

\* The rows are records of raw_data
IsRawData(rows) == \A i \in 1..Len(rows) : "OrdinaryProfit" \in DOMAIN rows[i]

InitAnnual ==
    /\ series \in FinancialData(MaxAnnual, MaxGaps, MaxMixed)
    /\ view = NoCall
    /\ DbUnused
    /\ StoreUnused
    /\ NetUnused

ProfitGrowth10Years ==
    /\ view = NoCall
    /\ IsRawData(series)
    /\ view' = [op |-> "calculate_profit_growth_10years"]
                  @@ calculate_profit_growth_10years(series)
    /\ UNCHANGED <<dbVars, storeVars, netVars, series>>

ProfitGrowth1Year ==
    /\ view = NoCall
    /\ IsRawData(series)
    /\ view' = [op |-> "calculate_profit_growth_1year"]
                  @@ calculate_profit_growth_1year(series)
    /\ UNCHANGED <<dbVars, storeVars, netVars, series>>

\* _determine_profit_type applied to the rows as they are
DetermineProfitTypeStrict ==
    /\ view = NoCall
    /\ IsRawData(series)
    /\ view' = [op |-> "_determine_profit_type", out |-> _determine_profit_type(series)]
    /\ UNCHANGED <<dbVars, storeVars, netVars, series>>

\* old_04_statements.determine_profit_type applied to the rows as they are
DetermineProfitTypeLenient ==
    /\ view = NoCall
    /\ IsRawData(series)
    /\ view' = [op |-> "determine_profit_type", out |-> determine_profit_type(series)]
    /\ UNCHANGED <<dbVars, storeVars, netVars, series>>

NextAnnual ==
    \/ ProfitGrowth10Years
    \/ ProfitGrowth1Year
    \/ DetermineProfitTypeStrict
    \/ DetermineProfitTypeLenient

SpecAnnual == InitAnnual /\ [][NextAnnual]_vars

\* The two growth computations, each on the frames its caller hands it
InitRates ==
    /\ \/ series \in GrowthLists(MaxGrowthRows)
       \/ series \in FinancialData(MaxAnnual, MaxGaps, MaxMixed)
    /\ view = NoCall
    /\ DbUnused
    /\ StoreUnused
    /\ NetUnused

NextRates ==
    \/ CalculateGrowthRates
    \/ ProfitGrowth10Years

SpecRates == InitRates /\ [][NextRates]_vars

\* ----- remote calls, request by request --------------------------------------
\* (main_new_break_stock.py _fetch_html_from_url; stock_database.py
\* get_financial_statements inside the loop of batch_get_market_stocks_data)

\* The requests whose fate is drawn
MaxAnswers == 5

\* max_retries of _fetch_html_from_url
max_retries == 3

Running(op) == [op |-> op, st |-> "running"]
Returned(op, out, step) == [op |-> op, st |-> "returned", out |-> out, step |-> step]

InitRetry ==
    /\ answers \in [1..MaxAnswers -> BOOLEAN]
    /\ attempt = 0
    /\ call = NoCall
    /\ DbUnused
    /\ StoreUnused
    /\ CalcUnused

\* step1_fetch_stock_list reaches a URL: _extract_stock_data_from_url calls
\* _fetch_html_from_url
HtmlFetch ==
    /\ call = NoCall
    /\ call' = Running("_fetch_html_from_url")
    /\ UNCHANGED <<dbVars, storeVars, calcVars, answers, attempt>>

\* One pass of the loop `for attempt in range(max_retries)`: a served request
\* returns the text; a RequestException is followed by a sleep and the next
\* pass, or by `return None` on the last pass.  A page without a text makes
\* the step of step1_fetch_stock_list a skipped one, a page with rows a
\* successful one.
HtmlAttempt ==
    /\ call = Running("_fetch_html_from_url")
    /\ attempt < max_retries
    /\ attempt' = attempt + 1
    /\ IF answers[attempt + 1]
       THEN \E rows \in BOOLEAN :
                call' = Returned("_fetch_html_from_url", "text",
                                 IF rows THEN "successful" ELSE "skipped")
       ELSE IF attempt < max_retries - 1
            THEN call' = call
            ELSE call' = Returned("_fetch_html_from_url", "None", "skipped")
    /\ UNCHANGED <<dbVars, storeVars, calcVars, answers>>

\* One iteration of the loop of batch_get_market_stocks_data, up to the
\* return of get_financial_statements: one request; an exception of the
\* client is re-raised and the iteration's except clause counts an error
StatementFetch ==
    /\ call = NoCall
    /\ attempt' = attempt + 1
    /\ IF answers[attempt + 1]
       THEN \E rows \in BOOLEAN :
                call' = Returned("get_financial_statements", "data",
                                 IF rows THEN "success" ELSE "skipped")
       ELSE call' = Returned("get_financial_statements", "raised", "error")
    /\ UNCHANGED <<dbVars, storeVars, calcVars, answers>>

NextRetry ==
    \/ HtmlFetch
    \/ HtmlAttempt
    \/ StatementFetch

SpecRetry == InitRetry /\ [][NextRetry]_vars

\* ----- period reconstruction over several fiscal years ------------------------
\* (main_pre_break_stock.py, main_new_break_stock.py, old_04_statements.py:
\* the same scan in each)

\* The fiscal years a symbol's records span
NumFiscalYears == 2

\* The cumulative value a symbol reports for period p of the fiscal year that
\* lies k years back; no two records report the same value
CumulativeOf(p, k) ==
    1000 * k + (CASE p = "1Q" -> 100 [] p = "2Q" -> 220 [] p = "3Q" -> 300 [] OTHER -> 460)

\* The records of one fiscal year, newest first
YearRecords(k) ==
    [n \in 1..4 |->
        LET p == <<"FY", "3Q", "2Q", "1Q">>[n]
        IN  [TypeOfCurrentPeriod |-> p, Cumulative |-> Num(CumulativeOf(p, k)),
             FiscalYear |-> ThisYear - k]]

\* Every record of the n newest fiscal years, newest first
RECURSIVE Calendar(_)
Calendar(n) == IF n = 0 THEN << >> ELSE Calendar(n - 1) \o YearRecords(n - 1)

\* What the store holds of the calendar: any of its records, newest first
FiscalLists(n) == {SelectRows(Calendar(n), keep) : keep \in SUBSET (1..(4 * n))}

InitFiscal ==
    /\ series \in FiscalLists(NumFiscalYears)
    /\ view = NoCall
    /\ DbUnused
    /\ StoreUnused
    /\ NetUnused

NextFiscal == CalculatePeriodValues

SpecFiscal == InitFiscal /\ [][NextFiscal]_vars

\* ----- properties ---------------------------------------------------------
\* The todayDisclosureCount of a persisted state: the count line of the
\* status file, 0 when the file has none
TodayDisclosureCount(st) ==
    IF st.exists /\ "todayCount" \in DOMAIN st.content THEN st.content["todayCount"] ELSE 0

RemoteCalls ==
    countCalls + listCalls
    + Cardinality({d \in Dates : byDateCalls[d] > 0})
    + Cardinality({s \in Symbols : fetchCalls[s] > 0})

\* C1: a startup that finds lastProcessedDate = D queries the disclosure
\* count c of D once; it decides NeedsSameDayResync exactly when c > 0 and
\* c > S.todayDisclosureCount and UpToDate otherwise; when UpToDate it makes
\* no other remote call, writes no record set and leaves the status file
\* as it read it.
C1_SameDayDecision ==
    /\ [](decision \in {"UpToDate", "NeedsSameDayResync"} =>
            /\ LastProcessedDate(statusRead) = today
            /\ (decision = "NeedsSameDayResync") <=>
                   (seenCount > 0 /\ seenCount > TodayDisclosureCount(statusRead))
            /\ pc = "sameDay" => RemoteCalls = 1
            /\ decision = "UpToDate" =>
                   /\ pc = "ready"
                   /\ RemoteCalls = 1
                   /\ status = statusRead)
    /\ [][decision' = "UpToDate" => files' = files]_vars

\* C1 witness: UpToDate was decided although D has disclosures, because the
\* count did not grow
C1_Witness ==
    /\ decision = "UpToDate"
    /\ seenCount > 0
    /\ seenCount = TodayDisclosureCount(statusRead)

\* C2: a date-range resync from S.lastProcessedDate < D queries every day of
\* [S.lastProcessedDate, D] once and no other day, and re-fetches once each
\* exactly the symbols that disclosed on those days.
C2_DateRangeExact ==
    (mode = "dateRange" /\ startDate # NoDate /\ startDate < today
        /\ (pc = "status" \/ pc = "ready")) =>
        /\ \A d \in Dates : byDateCalls[d] = IF d \in startDate..today THEN 1 ELSE 0
        /\ \A s \in Symbols : fetchCalls[s] = IF s \in offered THEN 1 ELSE 0

\* C3: a date-range or same-day cycle that ran to its end leaves
\* lastProcessedDate = D in the status file, whatever the affected set was.
C3_StatusAdvanced ==
    (pc = "ready" /\ mode \in {"dateRange", "sameDay"}) => LastProcessedDate(status) = today

\* C4: the lastProcessedDate read from the status file never decreases.
C4_DateMonotone ==
    [][(LastProcessedDate(status) # NoDate /\ LastProcessedDate(status)' # NoDate)
          => LastProcessedDate(status)' >= LastProcessedDate(status)]_vars

\* C5: once a by-date discovery query of the cycle has failed, the status
\* file stays as the startup read it.
C5_QueryFailureAborts ==
    failedDates # {} => status = statusRead

\* The statements of s disclosed before today, which no later disclosure
\* changes
PastStatements(s) == {d \in Dates : d < today /\ s \in disclosed[d]}

\* C6: a startup without status file that enumerated the universe and was
\* not stopped by the error ceiling has fetched every enumerated symbol once
\* (existing files included), holds the full history of every symbol whose
\* fetch gave data and was saved, and has written a status file with
\* lastProcessedDate = D and mode fullForce.
C6_FullResync ==
    (pc = "ready" /\ mode = "fullForce" /\ stats.total > 0 /\ stats.error < maxErrors) =>
        /\ ~statusRead.exists
        /\ decision = "NeedsFullResync"
        /\ listCalls = 1
        /\ \A s \in Symbols : fetchCalls[s] = IF s <= stats.total THEN 1 ELSE 0
        /\ \A s \in 1..stats.total :
              /\ outcome[s] \in {"saved", "empty", "error"}
              /\ outcome[s] = "saved" =>
                    /\ files[s].st = "full"
                    /\ files[s].recs # {}
                    /\ PastStatements(s) \subseteq files[s].recs
                    /\ files[s].recs \subseteq FetchStatements(s)
        /\ status.exists
        /\ status.content["processedDate"] = today
        /\ status.content["acquireMode"] = "fullForce"

\* C6 witness: a full resync ended in which one symbol was saved and another,
\* whose file existed before the cycle, was fetched all the same
C6_Witness ==
    /\ pc = "ready" /\ mode = "fullForce" /\ stats.total >= 2
    /\ \E s \in Symbols : outcome[s] = "saved"
    /\ \E s \in Symbols : outcome[s] = "error" /\ files[s].st = "full" /\ fetchCalls[s] = 1

\* C7: when the enumeration of a startup's full resync yields nothing, the
\* constructor still completes, no symbol is fetched, no record file and no
\* status file is written, and the next startup finds no status file again.
C7_EnumerationFailure ==
    [][(pc = "enumerate" /\ mode = "fullForce" /\ listCalls' = listCalls + 1 /\ queue' = << >>)
          => /\ pc' = "ready"
             /\ files' = files
             /\ status' = status
             /\ ~status'.exists
             /\ \A s \in Symbols : fetchCalls'[s] = 0
             /\ LatestFile'.kind = "none"]_vars

\* C7 witness: the enumeration failed while a record set saved by an earlier,
\* interrupted cycle was on disk
C7_Witness ==
    /\ pc = "ready" /\ mode = "fullForce" /\ listCalls = 1 /\ stats.total = 0
    /\ ~status.exists
    /\ \E s \in Symbols : files[s].st = "full"

\* C8: an error for symbol k changes no other symbol's file or result, the
\* loop goes on after it unless the ceiling is reached, and a loop that ended
\* below the ceiling has processed all its symbols.
C8_ErrorIsolation ==
    /\ [][\A k \in Symbols : (outcome[k] = "none" /\ outcome'[k] = "error") =>
              /\ \A s \in Symbols \ {k} : files'[s] = files[s] /\ outcome'[s] = outcome[s]
              /\ (pc = "batch" /\ stats'.error < maxErrors /\ queue' # << >>) => pc' = "batch"
              /\ (pc = "update" /\ pending' # {}) => pc' = "update"]_vars
    /\ []((pc = "batchEnd" /\ stats.error < maxErrors) =>
              \A s \in 1..stats.total : outcome[s] # "none")
    /\ [](pc = "status" => \A s \in collected : outcome[s] # "none")

\* C8 witness: a batch ran to its end with an error between two saved symbols
C8_Witness ==
    /\ pc = "batchEnd" /\ queue = << >>
    /\ \E i, k, j \in 1..stats.total :
          /\ i < k /\ k < j
          /\ outcome[i] = "saved" /\ outcome[k] = "error" /\ outcome[j] = "saved"

\* A batch loop left with codes still to do
Abandoned == pc = "batchEnd" /\ queue # << >>

C10_SaveAtomic ==
    [][(pc # "idle" /\ pc' = "idle") =>
          \A s \in Symbols : files'[s] = files[s] \/ files'[s].st = "full"]_vars

\* The statement value a cell stands for, in a DataFrame and in JSON alike:
\* a missing value, a day, or a text
StatementValue(v) ==
    IF v \in {NaN, None} THEN [missing |-> TRUE]
    ELSE IF v.cell = "Timestamp" THEN [day |-> v.day]
    ELSE IF "isoday" \in DOMAIN v THEN [day |-> v.isoday]
    ELSE [text |-> v.text]

RecordOf(row) == [col \in DOMAIN row |-> StatementValue(row[col])]

RecordsOf(rows) == [i \in 1..Len(rows) |-> RecordOf(rows[i])]

\* C11: a load that follows a save of a non-empty record list R for the same
\* symbol, under either spelling of its code, returns the records of R in R's
\* order and nothing else, whatever the file held before the save, and the
\* stored data_count is the number of records of R.
C11_SaveLoadRoundTrip ==
    (ret.op = "load" /\ ret.after.op = "save" /\ ret.after.arg # << >>) =>
        /\ ret.code \in Spellings(ret.after.code)
        /\ ret.out # None
        /\ RecordsOf(ret.out.raw_data) = RecordsOf(ret.after.arg)
        /\ ret.out.metadata.data_count = Len(ret.after.arg)

C11_Witness ==
    /\ ret.op = "load"
    /\ ret.after.op = "save"
    /\ validate_stock_code(ret.code)
    /\ ret.code # ret.after.code
    /\ Len(ret.after.arg) > 1
    /\ ret.after.arg[1] # ret.after.arg[2]
    /\ ret.after.over.st = "json"
    /\ ret.after.over.raw_data # << >>
    /\ RecordsOf(ret.after.over.raw_data) # RecordsOf(ret.after.arg)
    /\ RecordsOf(ret.out.raw_data) = RecordsOf(ret.after.arg)

\* C12: load returns None for a missing file and for an unparsable one and
\* never raises; a cache lookup that finds an unparsable file asks the remote
\* for the symbol, the file itself makes it fail in no way, and what the
\* remote returned replaces the unparsable file and is returned.
C12_CorruptIsCacheMiss ==
    /\ ret.op = "load" =>
          /\ ret.out # Raised
          /\ (ret.out = None) <=>
                 (FileContent(store, _normalize_stock_code(ret.code)).st \in {"missing", "unparsable"})
    /\ (ret.op \in {"get_or_update_stock_data", "get_financial_data"} /\ ret.found = "unparsable") =>
          /\ ret.asked = {_normalize_stock_code(ret.code)}
          /\ (ret.out \in {Raised, None}) =>
                 (ret.got.raises \/ get_financial_statements(ret.got) = << >>)
          /\ (~ret.got.raises /\ get_financial_statements(ret.got) # << >>) =>
                 /\ store[_normalize_stock_code(ret.code)] =
                        JsonFile(_normalize_stock_code(ret.code), ret.code,
                                 get_financial_statements(ret.got))
                 /\ ret.out = load_stock_data(store, ret.code)
                 /\ RecordsOf(ret.out.raw_data) = RecordsOf(get_financial_statements(ret.got))

C12_Witness ==
    /\ ret.op = "get_financial_data"
    /\ ret.found = "unparsable"
    /\ validate_stock_code(ret.code)
    /\ ret.out \notin {Raised, None}
    /\ Len(ret.out.raw_data) > 1
    /\ ret.got.rows # get_financial_statements(ret.got)

\* C13: normalize appends "0" to every 4-character alphanumeric code and
\* returns every 5-character code unchanged; on a valid code its result has 5
\* characters and normalizing the result again changes nothing.
C13_NormalizePads ==
    ret.op = "normalize" =>
        /\ (Len(ret.code) = 4 /\ validate_stock_code(ret.code)) =>
               ret.out = ret.code \o <<"0">>
        /\ Len(ret.code) = 5 => ret.out = ret.code
        /\ validate_stock_code(ret.code) =>
               /\ Len(ret.out) = 5
               /\ _normalize_stock_code(ret.out) = ret.out

C13_Witness ==
    /\ ret.op = "normalize"
    /\ validate_stock_code(ret.code)
    /\ Len(ret.code) = 4
    /\ ret.code[4] = "A"
    /\ ret.out[4] = "A"
    /\ ret.out[5] = "0"

\* C14: normalize fails for every code that is not 4 or 5 alphanumeric
\* characters, and no such code reaches a file name or a remote call.
C14_InvalidSymbolRejected ==
    /\ (ret.op = "normalize" /\ ~validate_stock_code(ret.code)) => ret.out = Raised
    /\ \A n \in fileNames \cup clientCodes : validate_stock_code(n)
\* Older rows of the predecessor type of row i
PredecessorRows(df, i) ==
    {j \in (i + 1)..Len(df) : df[j].TypeOfCurrentPeriod = target_period(df[i].TypeOfCurrentPeriod)}

\* C15 (as stated): a row with a present cumulative value reconstructs to that
\* value for 1Q, and for 2Q/3Q/FY to the value minus the cumulative value of the
\* first older row of the predecessor type, whatever that row holds; with no
\* such row it keeps the raw value.
C15_FirstPredecessorRow ==
    view.op = "_calculate_period_values" =>
        \A i \in 1..Len(series) :
            LET row == series[i]
                older == PredecessorRows(series, i)
            IN  Parseable(row.Cumulative) =>
                    /\ view.out[i] # None
                    /\ row.TypeOfCurrentPeriod = "1Q" => view.out[i].val = row.Cumulative.num
                    /\ (row.TypeOfCurrentPeriod # "1Q" /\ older = {}) =>
                            view.out[i].val = row.Cumulative.num
                    /\ (row.TypeOfCurrentPeriod # "1Q" /\ older # {}) =>
                            /\ Parseable(series[MinOf(older)].Cumulative)
                            /\ view.out[i].val =
                                 row.Cumulative.num - series[MinOf(older)].Cumulative.num

\* C15: a row with a parseable cumulative value reconstructs to that value for
\* 1Q, and for 2Q/3Q/FY to the value minus the cumulative value of the first
\* older row of the predecessor type whose own cumulative value is parseable;
\* with no such row it keeps the raw value. One fiscal year 100, 220, 300, 460
\* reconstructs to 100, 120, 80, 160.
C15_PeriodReconstruction ==
    view.op = "_calculate_period_values" =>
        /\ \A i \in 1..Len(series) :
            LET row == series[i]
                older == {j \in PredecessorRows(series, i) : Parseable(series[j].Cumulative)}
            IN  Parseable(row.Cumulative) =>
                    /\ view.out[i] # None
                    /\ row.TypeOfCurrentPeriod = "1Q" => view.out[i].val = row.Cumulative.num
                    /\ (row.TypeOfCurrentPeriod # "1Q" /\ older = {}) =>
                            view.out[i].val = row.Cumulative.num
                    /\ (row.TypeOfCurrentPeriod # "1Q" /\ older # {}) =>
                            view.out[i].val =
                                 row.Cumulative.num - series[MinOf(older)].Cumulative.num
        /\ series = FiscalYear =>
            view.out = <<Float(160), Float(80), Float(120), Float(100)>>

\* A 2Q row reconstructed against the second of two older 1Q rows, the nearer
\* one holding no value
C15_Witness ==
    /\ view.op = "_calculate_period_values"
    /\ Len(series) = 3
    /\ series[1] = [TypeOfCurrentPeriod |-> "2Q", Cumulative |-> Num(220)]
    /\ series[2].TypeOfCurrentPeriod = "1Q" /\ ~Parseable(series[2].Cumulative)
    /\ series[3] = [TypeOfCurrentPeriod |-> "1Q", Cumulative |-> Num(100)]
    /\ view.out[1] = Float(120)

\* The first older row of the same period type disclosed a year earlier, 0 if none
ComparisonRow(df, i) ==
    LET older == {j \in (i + 1)..Len(df) :
                    /\ df[i].DisclosedDate # None
                    /\ df[j].DisclosedDate # None
                    /\ df[j].TypeOfCurrentPeriod = df[i].TypeOfCurrentPeriod
                    /\ year(df[j].DisclosedDate) = year(df[i].DisclosedDate) - 1}
    IN  IF older = {} THEN 0 ELSE MinOf(older)

\* C16: whenever the comparison row (first older row of the same period type
\* disclosed the year before) exists, both period values are present and the
\* prior one is not zero, the rate is defined and is
\* (current - previous) / |previous| * 100 to one decimal, for every current
\* value including 0 and negative ones; a loss of 50 followed by a profit of
\* 50 gives 200.0.
C16_YearOverYearDefined ==
    view.op = "_calculate_growth_rates" =>
        /\ \A i \in 1..Len(series) :
            LET j == ComparisonRow(series, i)
            IN  (/\ j # 0
                 /\ series[i].Period # None
                 /\ series[j].Period # None
                 /\ series[j].Period.val # 0) =>
                    view.out[i] = growth_rate(series[i].Period.val, series[j].Period.val)
        /\ series = Turnaround => view.out[1] = Rate(2000)

\* C17: a growth rate that cannot be computed (no prior-year row of the same
\* period type, a missing current or prior value, a prior value of zero) is
\* the undeterminable value None, never 0 and never an exception, in the
\* quarterly year-over-year column and in the per-year rates of the multi-year
\* average; an average over no defined rate is None as well.
C17_Undeterminable ==
    /\ view.op = "_calculate_growth_rates" =>
        \A i \in 1..Len(series) :
            LET j == ComparisonRow(series, i)
            IN  /\ view.out[i] # Raised
                /\ (\/ j = 0
                    \/ series[i].Period = None
                    \/ series[j].Period = None
                    \/ series[j].Period.val = 0) => view.out[i] = None
    /\ view.op = "calculate_profit_growth_10years" =>
        /\ view.out # Raised
        /\ \A i \in 1..Len(view.growth_rates) :
            LET current == profit_column(view.df[i], view.profit_type)
                previous == profit_column(view.df[i + 1], view.profit_type)
            IN  /\ view.growth_rates[i] # Raised
                /\ (\/ i = Len(view.df)
                    \/ ~Parseable(current)
                    \/ ~Parseable(previous)
                    \/ previous.num = 0) => view.growth_rates[i] = None
        /\ (\A i \in 1..Len(view.growth_rates) : view.growth_rates[i] = None) => view.out = None

\* Three annual rows, the middle one without a value in the column used: both
\* rates are undeterminable and so is the average
C17_Witness ==
    /\ view.op = "calculate_profit_growth_10years"
    /\ Len(view.df) = 3
    /\ view.profit_type = "operating"
    /\ Parseable(view.df[1].OperatingProfit) /\ view.df[1].OperatingProfit.num # 0
    /\ ~Parseable(view.df[2].OperatingProfit)
    /\ Parseable(view.df[3].OperatingProfit) /\ view.df[3].OperatingProfit.num # 0
    /\ view.growth_rates = <<None, None, None>>
    /\ view.out = None

\* Two averages are the same number, or both undefined
SameAverage(a, b) ==
    IF a = None \/ b = None THEN a = b
    ELSE a.sum * b.len = b.sum * a.len

\* The annual statements of raw_data, newest first
AnnualStatements(raw_data) ==
    SortNewestFirst(WithTimestamps(SelectRows(raw_data, AnnualMask(raw_data))))

\* The mean of the defined rates between neighbours among the n newest rows
MeanOverNewest(raw_data, n) ==
    LET newest == head(AnnualStatements(raw_data), n)
        rates == growth_rates(newest, _determine_profit_type(newest))
        defined == SelectRows(rates, ValidMask(rates))
    IN  IF defined = << >> THEN None ELSE Average(defined)

\* C18: the multi-year average is the mean of the defined growth rates between
\* neighbouring rows among the 10 newest annual statements, taken on the raw
\* profit column; no older annual statement influences it; it is undefined
\* when no rate is defined; ordinary profits 1000 then 1100 alone give 10.0.
C18_TenNewestRecords ==
    view.op = "calculate_profit_growth_10years" =>
        /\ SameAverage(view.out, MeanOverNewest(series, 10))
        /\ (/\ Len(series) = 2
            /\ series[1].OrdinaryProfit = Num(1100)
            /\ series[2].OrdinaryProfit = Num(1000)
            /\ AnnualStatements(series) = WithTimestamps(series)) =>
                SameAverage(view.out, Average(<<Rate(100)>>))

AtLeastOne(rows) ==
    IF \E i \in 1..Len(rows) : Parseable(rows[i].OrdinaryProfit) THEN "ordinary" ELSE "operating"

\* C20: the lenient selection answers 'ordinary' when ordinary profit is
\* parseable in at least one row and 'operating' otherwise, the empty set
\* included, and the quarterly year-over-year view selects its profit column
\* this way.
C20_LenientProfitType ==
    /\ view.op = "determine_profit_type" => view.out = AtLeastOne(series)
    /\ (view.op = "calculate_profit_growth_1year" /\ view.df # << >>) =>
            view.profit_type = AtLeastOne(view.df)

\* The status file is one a sync cycle wrote (a migrated legacy file names no
\* mode)
WrittenByCycle(f) ==
    f.exists /\ (DOMAIN f.content) \cap {"acquireMode", "updateMode"} # {}

\* The mode line of a status file a cycle wrote
ModeWritten(f) ==
    IF "acquireMode" \in DOMAIN f.content THEN f.content["acquireMode"]
    ELSE f.content["updateMode"]

\* C21: the status file a cycle of any kind wrote reads back with all four
\* fields (processed date, run mode, today's disclosure count, previous
\* count), each as written; none is missing from what the parser returns.
C21_StatusRoundTrip ==
    WrittenByCycle(status) =>
        LET info == _parse_status_file_content(status)
        IN  /\ DOMAIN info = ParsedKeys
            /\ info["processedDate"] = status.content["processedDate"]
            /\ info["updateMode"] = ModeWritten(status)
            /\ info["todayCount"] = status.content["todayCount"]
            /\ info["prevCount"] = status.content["prevCount"]

\* C22: a remote call that fails is tried again at its call site; the call
\* succeeds with the first request served, and its step is given up (skipped
\* or counted as an error) only after several requests, all of them failed.
\* This holds for the HTML fetch and for the per-symbol statement fetch.
C22_RetriedAtCallSite ==
    (call # NoCall /\ call.st = "returned") =>
        /\ call.out \in {"text", "data"} =>
                /\ answers[attempt]
                /\ \A i \in 1..(attempt - 1) : ~answers[i]
        /\ call.out \in {"None", "raised"} =>
                /\ attempt > 1
                /\ \A i \in 1..attempt : ~answers[i]

\* C23: missing values propagate through period reconstruction: a row whose
\* own cumulative value is missing (null, "" or "N/A") has no period value,
\* and a 2Q/3Q/FY row whose first older row of the predecessor type has a
\* missing cumulative value has no period value either (no still older row
\* and no raw cumulative value takes its place).
C23_MissingPropagates ==
    view.op = "_calculate_period_values" =>
        \A i \in 1..Len(series) :
            LET row == series[i]
                older == PredecessorRows(series, i)
            IN  /\ ~Present(row.Cumulative) => view.out[i] = None
                /\ (older # {} /\ ~Present(series[MinOf(older)].Cumulative)) =>
                        view.out[i] = None

\* The case analysis of _check_and_update_database on the files st and lg, on
\* the day `day`, when the by-date query returns `count` rows
StartupDecision(st, lg, day, count) ==
    LET m == _migrate_old_status_files(st, lg)
        latest == _find_latest_status_file(m.status, m.legacy)
    IN  IF latest.kind = "none" THEN "NeedsFullResync"
        ELSE IF _parse_status_file_date(latest, m.status) # day THEN "NeedsDateRangeResync"
        ELSE IF _check_same_day_updates(count, m.status) THEN "NeedsSameDayResync"
        ELSE "UpToDate"

\* A cycle writes its status and returns
CycleCompletes == pc \in {"batchEnd", "status"} /\ pc' = "ready"

\* C24: re-running is idempotent within a day: the state a completed cycle
\* (full, date-range or same-day) leaves is one in which a startup on the same
\* day, the remote count for the day unchanged, decides UpToDate.
C24_IdempotentWithinDay ==
    [][CycleCompletes =>
          StartupDecision(status', legacy', today', Cardinality(disclosed'[today'])) = "UpToDate"]_vars

\* C25: the record whose cumulative value is subtracted from a 2Q/3Q/FY record
\* belongs to the same fiscal year as that record, also when a quarter of the
\* record's fiscal year is absent and the same quarter of an earlier fiscal
\* year is present.
C25_SameFiscalYear ==
    view.op = "_calculate_period_values" =>
        \A i \in 1..Len(series) :
            LET subtracted == series[i].Cumulative.num - view.out[i].val
            IN  subtracted # 0 =>
                    \E j \in (i + 1)..Len(series) :
                        /\ series[j].Cumulative.num = subtracted
                        /\ series[j].FiscalYear = series[i].FiscalYear

\* Today's disclosures whose symbols the running cycle has fetched
Refetched == {s \in disclosed[today] : fetchCalls[s] > 0}

\* C26: the count a same-day or date-range cycle persists covers only
\* disclosures whose symbols the cycle fetched again: a disclosure published
\* between the discovery query and the writing of the status file is not in
\* the persisted count, and the next startup on the same day detects it.
C26_CountCoversRefetched ==
    [][(pc = "status" /\ pc' = "ready") =>
          /\ status'.content["todayCount"] <= Cardinality(Refetched)
          /\ disclosed[today] \ Refetched # {} =>
                StartupDecision(status', legacy', today, Cardinality(disclosed[today]))
                    = "NeedsSameDayResync"]_vars

\* A status file that exists and yields no processed date
Undated(st) == st.exists /\ LastProcessedDate(st) = NoDate

\* C27: a status file without a parsable processed date is treated like no
\* history: the startup that finds it decides a full resync, and when its
\* cycle has returned the status file names today as the processed date.
C27_UndatedIsNoHistory ==
    /\ (pc # "idle" /\ Undated(statusRead)) => decision = "NeedsFullResync"
    /\ (pc = "ready" /\ Undated(statusRead)) => LastProcessedDate(status) = today

\* C28: the migration step of a startup leaves an existing update_info.txt
\* as it is (a legacy file is copied only when there is none), and after a
\* startup no legacy status file is left beside the unified file for a later
\* startup to migrate.
C28_MigrationKeepsUnified ==
    [][(pc = "idle" /\ pc' # "idle") =>
          /\ status.exists => status' = status
          /\ status'.exists => LegacyFiles(legacy') = {}]_vars

\* C29: a status file with run mode fullForce and processed date today is
\* written only after every enumerated symbol was attempted in the cycle; a
\* batch that stops at the error ceiling does not mark today as processed.
C29_FullForceStatusAfterAll ==
    [][(/\ status' # status
        /\ status'.exists
        /\ "acquireMode" \in DOMAIN status'.content
        /\ status'.content["acquireMode"] = "fullForce"
        /\ status'.content["processedDate"] = today)
          => \A s \in 1..stats.total : outcome[s] # "none"]_vars

\* The symbols the running loop has been through, and the sum of its tallies
Processed == {s \in Symbols : outcome[s] # "none"}
TallySum == stats.success + stats.skipped + stats.error

====
